---------------------------- MODULE Spec2Model ----------------------------
(*
  Model of the face-recognition attendance server (server/server.js,
  kept here as src/unnamed/part_000).

  State: the two persisted JSON documents (data/faces.json and
  data/attendance.json), the requests suspended at
  `await extractFaceDescriptor(image)`, and the last response sent.

  Each async handler is two steps: the part up to the await (validation)
  and the part after it, which runs to the response without suspension
  because loadFaces/saveFaces and the log I/O use the synchronous fs calls.

  Numbers.  A descriptor component is a multiple of 1/GridDen.  A distance
  is carried exactly, as the integer sum of squared component differences
  (in grid units), so  d = sqrt(sq) / GridDen ; comparisons of distances
  and Math.round are computed on that exact form (floating-point rounding
  error of the double arithmetic is not modelled).
  Strings are sequences of one-character strings.
  Array indices are 1-based here (0-based in the source), so findIndex
  answers 0 where the source answers -1.
*)
EXTENDS Integers, Sequences, FiniteSets, Bags, TLC

(* ------------------------------ bounds ------------------------------ *)

\* number of requests the server receives in a run
MaxRequests == 3

\* descriptor components are multiples of 1/GridDen
GridDen == 5

\* request names: missing/empty, a case pair, padded, blank, an unrelated one
NameInputs ==
    { <<>>, <<"a">>, <<"A">>, <<" ", "a">>, <<" ">>, <<"b">> }

\* request images: missing/empty, or some image data
ImageInputs == { "", "img" }

\* descriptors the extractor may produce (grid units):
\* pairwise distances 0, 0.283 (below the threshold), 0.6 (the threshold)
\* and 0.825 (above it)
Descriptors == { <<0, 0>>, <<3, 0>>, <<4, 1>> }

\* extractFaceDescriptor resolving to null / undefined: no face in the image
NoDetection == [found |-> FALSE, descriptor |-> <<>>]

\* what `await extractFaceDescriptor(image)` resolves to
Detections ==
    { [found |-> TRUE, descriptor |-> d] : d \in Descriptors } \cup { NoDetection }

(* ------------------------------ state ------------------------------- *)

VARIABLES
    facesFile,        \* data/faces.json: [exists, data (the parsed array)]
    attendanceFile,   \* data/attendance.json: [exists, data (the parsed array)]
    pending,          \* bag of the requests suspended at the extractor await
    detection,        \* what the extractor await last resolved to
    nextId,           \* requests received so far; also the wall clock
    res,              \* the last response sent, numbered in sending order
    console,          \* the last line written with console.error, numbered
    phase,            \* start(): "loading", "listening" or "failed"
    modelsLoaded,     \* how many of the nets loadModels has loaded
    lost              \* history: persisted records and events that a later
                      \* successful write removed without replacing them

vars == <<facesFile, attendanceFile, pending, detection, nextId, res,
          console, phase, modelsLoaded, lost>>

\* the part of the state start() works on
startVars == <<phase, modelsLoaded>>

\* a data file that has not been written yet
absent == [exists |-> FALSE, data |-> <<>>, torn |-> FALSE]

\* fs.writeFileSync(path, JSON.stringify(array, null, 2)): strings and finite
\* numbers are written and parsed back unchanged
written(array) == [exists |-> TRUE, data |-> array, torn |-> FALSE]

\* a file that fs.writeFileSync opened (and so emptied) but did not finish
\* writing: what is on disk is a proper prefix of the JSON text, which
\* JSON.parse refuses
truncated == [exists |-> TRUE, data |-> <<>>, torn |-> TRUE]

\* JSON.parse(fs.readFileSync(...)) throws a SyntaxError on this file
Unparsable(file) == file.exists /\ file.torn

\* the arrays persisted in each document, before and after a step
facesNow == IF facesFile.exists THEN facesFile.data ELSE <<>>

facesNext == IF facesFile'.exists THEN facesFile'.data ELSE <<>>

logNow == IF attendanceFile.exists THEN attendanceFile.data ELSE <<>>

logNext == IF attendanceFile'.exists THEN attendanceFile'.data ELSE <<>>

\* s is a prefix of t
IsPrefix(s, t) == Len(s) <= Len(t) /\ SubSeq(t, 1, Len(s)) = s

\* the elements of a sequence
Range(seq) == { seq[i] : i \in 1..Len(seq) }

\* console.error(line, detail) after the console con
Logged(con, line, detail) == [n |-> con.n + 1, line |-> line, detail |-> detail]

\* error.message of the errors the handlers can meet
ParseError == "SyntaxError: Unexpected end of JSON input"

WriteError == "ENOSPC: no space left on device, write"

DecodeError == "Error: Unsupported image type"

DetectError == "Error: detection failed"

ModelError == "Error: ENOENT: no such file or directory (model manifest)"

(* --------------------------- pure helpers --------------------------- *)

\* String.prototype.toLowerCase, per character
LowerChar(c) ==
    CASE c = "A" -> "a"
      [] c = "B" -> "b"
      [] OTHER -> c

toLowerCase(s) == [i \in 1..Len(s) |-> LowerChar(s[i])]

IsSpace(c) == c = " "

RECURSIVE trimStart(_)
trimStart(s) ==
    IF s # <<>> /\ IsSpace(Head(s)) THEN trimStart(Tail(s)) ELSE s

RECURSIVE trimEnd(_)
trimEnd(s) ==
    IF s # <<>> /\ IsSpace(s[Len(s)])
    THEN trimEnd(SubSeq(s, 1, Len(s) - 1))
    ELSE s

\* String.prototype.trim
trim(s) == trimEnd(trimStart(s))

\* JavaScript truthiness of the request's name (a missing name is the empty one)
NameTruthy(s) == s # <<>>

\* JavaScript truthiness of the request's image
ImageTruthy(image) == image # ""

(* ----------------------------- storage ------------------------------ *)

\* a handler that starts from an empty array instead of the stored records
loadFacesFresh == <<>>

\* loadFaces: the parsed array, or [] when the file does not exist
loadFaces == IF facesFile.exists THEN facesFile.data ELSE <<>>

\* a log append that starts from an empty array instead of the stored log
loadAttendanceLogForgotten == <<>>

\* the attendance handlers' inline load of data/attendance.json
loadAttendanceLog == IF attendanceFile.exists THEN attendanceFile.data ELSE <<>>

\* new Date().toISOString(): the wall clock, read as the count of requests
\* received so far
now == nextId

(* ----------------------------- distance ----------------------------- *)

NaN == [kind |-> "NaN", sq |-> 0]

Infinity == [kind |-> "Infinity", sq |-> 0]

Num(n) == [kind |-> "num", sq |-> n]

\* the loop of euclideanDistance from index i on, with the running sum;
\* desc2[i] beyond desc2's length is undefined and makes the sum NaN
RECURSIVE SumLoop(_, _, _, _)
SumLoop(desc1, desc2, i, sum) ==
    IF i > Len(desc1) THEN sum
    ELSE IF i > Len(desc2) \/ sum.kind = "NaN"
         THEN SumLoop(desc1, desc2, i + 1, NaN)
         ELSE SumLoop(desc1, desc2, i + 1,
                      Num(sum.sq + (desc1[i] - desc2[i]) * (desc1[i] - desc2[i])))

\* euclideanDistance(desc1, desc2); the result stands for sqrt(sq)/GridDen
euclideanDistance(desc1, desc2) == SumLoop(desc1, desc2, 1, Num(0))

\* a scan that compares with <= , so that the last of several nearest wins
LessOrEqual(a, b) ==
    /\ a.kind = "num"
    /\ \/ b.kind = "Infinity"
       \/ b.kind = "num" /\ a.sq <= b.sq

\* JavaScript  a < b  on distances
Less(a, b) ==
    /\ a.kind = "num"
    /\ \/ b.kind = "Infinity"
       \/ b.kind = "num" /\ a.sq < b.sq

\* const THRESHOLD = 0.6, in tenths
THRESHOLD == 6

\* a threshold test that accepts a distance equal to the threshold
AtOrBelowThreshold(d) ==
    /\ d.kind = "num"
    /\ d.sq * 100 <= THRESHOLD * THRESHOLD * GridDen * GridDen

\* bestDistance < THRESHOLD :  sqrt(sq)/GridDen < THRESHOLD/10
BelowThreshold(d) ==
    /\ d.kind = "num"
    /\ d.sq * 100 < THRESHOLD * THRESHOLD * GridDen * GridDen

\* a confidence that forgets the `1 -`: Math.round(d * 100)
ConfidenceOfDistance(d) ==
    CHOOSE k \in 0..400 :
        /\ 40000 * d.sq <= (2 * k + 1) * (2 * k + 1) * GridDen * GridDen
        /\ \/ k = 0
           \/ 40000 * d.sq > (2 * k - 1) * (2 * k - 1) * GridDen * GridDen

\* Math.round((1 - d) * 100) for d = sqrt(sq)/GridDen, rounding halves up:
\* the answer is 100 - k for the least k with 100*d <= k + 1/2
Confidence(d) ==
    100 - CHOOSE k \in 0..400 :
            /\ 40000 * d.sq <= (2 * k + 1) * (2 * k + 1) * GridDen * GridDen
            /\ \/ k = 0
               \/ 40000 * d.sq > (2 * k - 1) * (2 * k - 1) * GridDen * GridDen

\* the best-match scan of POST /api/attendance from position i on;
\* best = [match |-> position of bestMatch (0 for null), distance |-> bestDistance]
RECURSIVE ScanFrom(_, _, _, _)
ScanFrom(faces, probe, i, best) ==
    IF i > Len(faces) THEN best
    ELSE LET distance == euclideanDistance(probe, faces[i].descriptor)
         IN  IF Less(distance, best.distance)
             THEN ScanFrom(faces, probe, i + 1, [match |-> i, distance |-> distance])
             ELSE ScanFrom(faces, probe, i + 1, best)

\* a scan that starts at the second candidate
BestMatchSkipsFirst(faces, probe) ==
    ScanFrom(faces, probe, 2, [match |-> 0, distance |-> Infinity])

BestMatch(faces, probe) ==
    ScanFrom(faces, probe, 1, [match |-> 0, distance |-> Infinity])

\* what POST /api/attendance answers about the match, for a non-empty store:
\* the matched flag and, when matched, the name and the confidence
MatchResult(faces, probe) ==
    LET best == BestMatch(faces, probe)
    IN  IF best.match # 0 /\ BelowThreshold(best.distance)
        THEN [matched |-> TRUE,
              name |-> faces[best.match].name,
              confidence |-> Confidence(best.distance)]
        ELSE [matched |-> FALSE, name |-> <<>>, confidence |-> 0]

(* ----------------------------- register ----------------------------- *)

\* faces.findIndex(f => f.name.toLowerCase() === name.toLowerCase()), from i on
RECURSIVE findIndexFrom(_, _, _)
findIndexFrom(faces, name, i) ==
    IF i > Len(faces) THEN 0
    ELSE IF toLowerCase(faces[i].name) = toLowerCase(name) THEN i
         ELSE findIndexFrom(faces, name, i + 1)

findIndex(faces, name) == findIndexFrom(faces, name, 1)

\* a faceRecord that keeps the name as typed
FaceRecordUntrimmed(name, descriptor) ==
    [name |-> name, descriptor |-> descriptor, registeredAt |-> now]

\* the faceRecord object built by the register handler
FaceRecord(name, descriptor) ==
    [name |-> trim(name), descriptor |-> descriptor, registeredAt |-> now]

\* a replace that moves the record to the end instead of keeping its slot
UpsertMovesToEnd(faces, name, faceRecord) ==
    LET existingIndex == findIndex(faces, name)
    IN  IF existingIndex >= 1
        THEN Append(SubSeq(faces, 1, existingIndex - 1)
                      \o SubSeq(faces, existingIndex + 1, Len(faces)),
                    faceRecord)
        ELSE Append(faces, faceRecord)

\* the replace-or-push of the register handler
Upsert(faces, name, faceRecord) ==
    LET existingIndex == findIndex(faces, name)
    IN  IF existingIndex >= 1
        THEN [faces EXCEPT ![existingIndex] = faceRecord]
        ELSE Append(faces, faceRecord)

\* a response: its serial number, the handler, the HTTP status, the JSON body
Response(handler, status, body) ==
    [id |-> res.id + 1, handler |-> handler, status |-> status, body |-> body]

\* the response of a handler's catch block
ServerError(handler, message, error) ==
    Response(handler, 500, [success |-> FALSE, message |-> message, error |-> error])

\* the response of Express's default error handler, for an exception thrown in
\* a route that has no try/catch: no JSON body of the application
Unhandled(handler) ==
    Response(handler, 500, [html |-> "Internal Server Error"])

\* a validation that refuses only when both fields are missing
InvalidWhenBothMissing(name, image) == ~NameTruthy(name) /\ ~ImageTruthy(image)

\* if (!name || !image)
Invalid(name, image) == ~NameTruthy(name) \/ ~ImageTruthy(image)

\* POST /api/register up to the await: validation, then suspension
ReceiveRegister(name, image) ==
    /\ phase = "listening"
    /\ nextId < MaxRequests
    /\ nextId' = nextId + 1
    /\ IF Invalid(name, image)
       THEN /\ res' = Response("register", 400,
                        [success |-> FALSE, message |-> "Name and image are required"])
            /\ pending' = pending
       ELSE /\ pending' = pending (+)
                    SetToBag({ [handler |-> "register", name |-> name] })
            /\ res' = res
    /\ UNCHANGED <<facesFile, attendanceFile, detection, console, startVars, lost>>

\* history: the records of other names that a register's write removed
DroppedRecords(before, after, name) ==
    Cardinality({ i \in 1..Len(before) :
                    /\ toLowerCase(before[i].name) # toLowerCase(name)
                    /\ before[i] \notin Range(after) })

\* history: the events that a checkIn's write removed or changed
DroppedEvents(before, after) ==
    Cardinality({ i \in 1..Len(before) : i > Len(after) \/ after[i] # before[i] })

\* the body of a successful register response
RegisterSuccessBody(name, faces, existingIndex) ==
    [success |-> TRUE,
     message |-> <<"Face registered successfully for", name>>,
     totalRegistered |-> Len(faces)]

\* POST /api/register after the await resolved to d, to the response;
\* con is the console as the extractor left it
RegisterHandler(req, d, con) ==
    /\ BagIn(req, pending)
    /\ req.handler = "register"
    /\ pending' = pending (-) SetToBag({ req })
    /\ detection' = d
    /\ IF ~d.found
       THEN /\ res' = Response("register", 400,
                        [success |-> FALSE, message |-> "No face detected in the image"])
            /\ facesFile' = facesFile
            /\ console' = con
       ELSE IF Unparsable(facesFile)
       THEN /\ res' = ServerError("register", "Server error during registration",
                                  ParseError)
            /\ facesFile' = facesFile
            /\ console' = Logged(con, "Registration error:", ParseError)
       ELSE LET faces == Upsert(loadFaces, req.name,
                                FaceRecord(req.name, d.descriptor))
            IN  /\ facesFile' = written(faces)
                /\ res' = Response("register", 200,
                            RegisterSuccessBody(req.name, faces,
                                                findIndex(loadFaces, req.name)))
                /\ console' = con
    /\ lost' = lost + DroppedRecords(facesNow, facesNext, req.name)
    /\ UNCHANGED <<attendanceFile, nextId, startVars>>

\* POST /api/register after the await (resolved to d), to the response
ResumeRegister(req, d) == RegisterHandler(req, d, console)

(* ---------------------------- attendance ---------------------------- *)

\* POST /api/attendance up to the await
ReceiveAttendance(image) ==
    /\ phase = "listening"
    /\ nextId < MaxRequests
    /\ nextId' = nextId + 1
    /\ IF ~ImageTruthy(image)
       THEN /\ res' = Response("attendance", 400,
                        [success |-> FALSE, message |-> "Image is required"])
            /\ pending' = pending
       ELSE /\ pending' = pending (+)
                    SetToBag({ [handler |-> "attendance", name |-> <<>>] })
            /\ res' = res
    /\ UNCHANGED <<facesFile, attendanceFile, detection, console, startVars, lost>>

\* a handler without the empty-store check
StoreIsEmptyUnchecked(faces) == FALSE

\* if (faces.length === 0)
StoreIsEmpty(faces) == Len(faces) = 0

\* an attendanceRecord that logs the lower-cased name
AttendanceRecordLowerCased(bestMatch, bestDistance) ==
    [name |-> toLowerCase(bestMatch.name),
     timestamp |-> now,
     confidence |-> Confidence(bestDistance)]

\* the attendanceRecord object built on a match
AttendanceRecord(bestMatch, bestDistance) ==
    [name |-> bestMatch.name,
     timestamp |-> now,
     confidence |-> Confidence(bestDistance)]

\* the catch block of POST /api/attendance, for an error thrown after the await
AttendanceCaught(con, error) ==
    /\ res' = ServerError("attendance", "Server error during attendance check", error)
    /\ attendanceFile' = attendanceFile
    /\ console' = Logged(con, "Attendance error:", error)

\* POST /api/attendance after the await resolved to d, to the response;
\* con is the console as the extractor left it
AttendanceHandler(req, d, con) ==
    /\ BagIn(req, pending)
    /\ req.handler = "attendance"
    /\ pending' = pending (-) SetToBag({ req })
    /\ detection' = d
    /\ IF ~d.found
       THEN /\ res' = Response("attendance", 400,
                        [success |-> FALSE, message |-> "No face detected in the image"])
            /\ attendanceFile' = attendanceFile
            /\ console' = con
       ELSE IF Unparsable(facesFile)
       THEN AttendanceCaught(con, ParseError)
       ELSE LET faces == loadFaces
            IN  IF StoreIsEmpty(faces)
                THEN /\ res' = Response("attendance", 404,
                                [success |-> FALSE, message |-> "No faces registered yet"])
                     /\ attendanceFile' = attendanceFile
                     /\ console' = con
                ELSE LET best == BestMatch(faces, d.descriptor)
                     IN  IF best.match # 0 /\ BelowThreshold(best.distance)
                         THEN IF Unparsable(attendanceFile)
                              THEN AttendanceCaught(con, ParseError)
                              ELSE
                              LET bestMatch == faces[best.match]
                                  attendanceRecord ==
                                      AttendanceRecord(bestMatch, best.distance)
                              IN  /\ attendanceFile' =
                                        written(Append(loadAttendanceLog, attendanceRecord))
                                  /\ res' = Response("attendance", 200,
                                        [success |-> TRUE, matched |-> TRUE,
                                         name |-> bestMatch.name,
                                         confidence |-> attendanceRecord.confidence,
                                         timestamp |-> attendanceRecord.timestamp,
                                         message |-> <<"Attendance marked for", bestMatch.name>>])
                                  /\ console' = con
                         ELSE /\ res' = Response("attendance", 200,
                                        [success |-> TRUE, matched |-> FALSE,
                                         message |-> "Face not recognized"])
                              /\ attendanceFile' = attendanceFile
                              /\ console' = con
    /\ lost' = lost + DroppedEvents(logNow, logNext)
    /\ UNCHANGED <<facesFile, nextId, startVars>>

\* POST /api/attendance after the await (resolved to d), to the response
ResumeAttendance(req, d) == AttendanceHandler(req, d, console)

(* ------------------------------ lists ------------------------------- *)

\* GET /api/faces
ListFaces ==
    /\ phase = "listening"
    /\ nextId < MaxRequests
    /\ nextId' = nextId + 1
    /\ IF Unparsable(facesFile)
       THEN /\ res' = Unhandled("faces")
            /\ console' = Logged(console, "SyntaxError (stack)", ParseError)
       ELSE /\ LET faces == loadFaces
               IN  res' = Response("faces", 200,
                            [success |-> TRUE, count |-> Len(faces),
                             faces |-> [i \in 1..Len(faces) |->
                                          [name |-> faces[i].name,
                                           registeredAt |-> faces[i].registeredAt]]])
            /\ console' = console
    /\ UNCHANGED <<facesFile, attendanceFile, pending, detection, startVars, lost>>

\* GET /api/attendance
ListAttendance ==
    /\ phase = "listening"
    /\ nextId < MaxRequests
    /\ nextId' = nextId + 1
    /\ IF Unparsable(attendanceFile)
       THEN /\ res' = Unhandled("attendanceLog")
            /\ console' = Logged(console, "SyntaxError (stack)", ParseError)
       ELSE /\ LET attendanceLog == loadAttendanceLog
               IN  res' = Response("attendanceLog", 200,
                            [success |-> TRUE, count |-> Len(attendanceLog),
                             records |-> attendanceLog])
            /\ console' = console
    /\ UNCHANGED <<facesFile, attendanceFile, pending, detection, startVars, lost>>

(* ------------------------------ start ------------------------------- *)

\* the nets loadModels loads, one await each
ModelCount == 3

\* one `await faceapi.nets.<net>.loadFromDisk(MODELS_PATH)` of loadModels resolves
LoadModel ==
    /\ phase = "loading"
    /\ modelsLoaded < ModelCount
    /\ modelsLoaded' = modelsLoaded + 1
    /\ UNCHANGED <<facesFile, attendanceFile, pending, detection, nextId, res,
                   console, phase, lost>>

\* one loadFromDisk rejects: start() rejects and start().catch(console.error)
\* logs it; app.listen is never reached
LoadModelFails ==
    /\ phase = "loading"
    /\ modelsLoaded < ModelCount
    /\ phase' = "failed"
    /\ console' = Logged(console, "start:", ModelError)
    /\ UNCHANGED <<facesFile, attendanceFile, pending, detection, nextId, res,
                   modelsLoaded, lost>>

\* a start() that calls app.listen without awaiting loadModels
ListenReadyUnawaited == TRUE

\* `await loadModels()` has resolved
ListenReady == modelsLoaded = ModelCount

\* app.listen(PORT, ...), after `await loadModels()`
Listen ==
    /\ phase = "loading"
    /\ ListenReady
    /\ phase' = "listening"
    /\ UNCHANGED <<facesFile, attendanceFile, pending, detection, nextId, res,
                   console, modelsLoaded, lost>>

(* --------------------------- specification -------------------------- *)

NoResponse == [id |-> 0, handler |-> "none", status |-> 0, body |-> [success |-> FALSE]]

NoOutput == [n |-> 0, line |-> "", detail |-> ""]

Init ==
    /\ facesFile = absent
    /\ attendanceFile = absent
    /\ pending = EmptyBag
    /\ detection = NoDetection
    /\ nextId = 0
    /\ res = NoResponse
    /\ console = NoOutput
    /\ phase = "loading"
    /\ modelsLoaded = 0
    /\ lost = 0

Next ==
    \/ LoadModel
    \/ LoadModelFails
    \/ Listen
    \/ \E name \in NameInputs, image \in ImageInputs : ReceiveRegister(name, image)
    \/ \E req \in BagToSet(pending), d \in Detections : ResumeRegister(req, d)
    \/ \E image \in ImageInputs : ReceiveAttendance(image)
    \/ \E req \in BagToSet(pending), d \in Detections : ResumeAttendance(req, d)
    \/ ListFaces
    \/ ListAttendance

Spec == Init /\ [][Next]_vars

\* a suspended handler goes on once its extractor call has resolved
Resume ==
    \/ \E req \in BagToSet(pending), d \in Detections : ResumeRegister(req, d)
    \/ \E req \in BagToSet(pending), d \in Detections : ResumeAttendance(req, d)

\* the server with the event loop's guarantee that resolved awaits go on
SpecFair == Spec /\ WF_vars(Resume)

(* ------------- an extractor whose signature length changes ------------ *)

\* descriptors of two lengths, as produced by extractors of two models
DescriptorsDim == { <<0, 0>>, <<3, 0>>, <<0>> }

DetectionsDim ==
    { [found |-> TRUE, descriptor |-> d] : d \in DescriptorsDim } \cup { NoDetection }

NextDim ==
    \/ LoadModel
    \/ LoadModelFails
    \/ Listen
    \/ \E name \in NameInputs, image \in ImageInputs : ReceiveRegister(name, image)
    \/ \E req \in BagToSet(pending), d \in DetectionsDim : ResumeRegister(req, d)
    \/ \E image \in ImageInputs : ReceiveAttendance(image)
    \/ \E req \in BagToSet(pending), d \in DetectionsDim : ResumeAttendance(req, d)
    \/ ListFaces
    \/ ListAttendance

SpecDim == Init /\ [][NextDim]_vars

(* --------------------------- storage faults -------------------------- *)

\* what a failed fs.writeFileSync leaves of the file it was writing: the file
\* as it was (the open failed) or a truncated one (a write failed)
AfterFailedWrite(file) == { file, truncated }

\* POST /api/register after the await, when saveFaces throws
RegisterWriteFails(req, d, after) ==
    /\ BagIn(req, pending)
    /\ req.handler = "register"
    /\ d.found
    /\ ~Unparsable(facesFile)
    /\ after \in AfterFailedWrite(facesFile)
    /\ pending' = pending (-) SetToBag({ req })
    /\ detection' = d
    /\ facesFile' = after
    /\ res' = ServerError("register", "Server error during registration", WriteError)
    /\ console' = Logged(console, "Registration error:", WriteError)
    /\ UNCHANGED <<attendanceFile, nextId, startVars, lost>>

\* POST /api/attendance after the await, when the write of the log throws
AttendanceWriteFails(req, d, after) ==
    /\ BagIn(req, pending)
    /\ req.handler = "attendance"
    /\ d.found
    /\ ~Unparsable(facesFile)
    /\ ~StoreIsEmpty(loadFaces)
    /\ LET best == BestMatch(loadFaces, d.descriptor)
       IN  best.match # 0 /\ BelowThreshold(best.distance)
    /\ ~Unparsable(attendanceFile)
    /\ after \in AfterFailedWrite(attendanceFile)
    /\ pending' = pending (-) SetToBag({ req })
    /\ detection' = d
    /\ attendanceFile' = after
    /\ res' = ServerError("attendance", "Server error during attendance check",
                          WriteError)
    /\ console' = Logged(console, "Attendance error:", WriteError)
    /\ UNCHANGED <<facesFile, nextId, startVars, lost>>

StorageFault ==
    \/ \E req \in BagToSet(pending), d \in Detections :
          \E after \in AfterFailedWrite(facesFile) : RegisterWriteFails(req, d, after)
    \/ \E req \in BagToSet(pending), d \in Detections :
          \E after \in AfterFailedWrite(attendanceFile) :
              AttendanceWriteFails(req, d, after)

(* ----------------- the extract endpoint, extractor faults ------------- *)

\* POST /api/extract-descriptor up to the await
ReceiveExtract(image) ==
    /\ phase = "listening"
    /\ nextId < MaxRequests
    /\ nextId' = nextId + 1
    /\ IF ~ImageTruthy(image)
       THEN /\ res' = Response("extract", 400,
                        [success |-> FALSE, message |-> "Image is required"])
            /\ pending' = pending
       ELSE /\ pending' = pending (+)
                    SetToBag({ [handler |-> "extract", name |-> <<>>] })
            /\ res' = res
    /\ UNCHANGED <<facesFile, attendanceFile, detection, console, startVars, lost>>

\* POST /api/extract-descriptor after the await resolved to d
ExtractHandler(req, d, con) ==
    /\ BagIn(req, pending)
    /\ req.handler = "extract"
    /\ pending' = pending (-) SetToBag({ req })
    /\ detection' = d
    /\ res' = IF ~d.found
              THEN Response("extract", 400,
                        [success |-> FALSE, message |-> "No face detected in the image"])
              ELSE Response("extract", 200,
                        [success |-> TRUE, descriptor |-> d.descriptor,
                         message |-> "Face descriptor extracted successfully"])
    /\ console' = con
    /\ UNCHANGED <<facesFile, attendanceFile, nextId, startVars, lost>>

ResumeExtract(req, d) == ExtractHandler(req, d, console)

\* the generic message of each handler's catch block
CatchMessage(handler) ==
    CASE handler = "register" -> "Server error during registration"
      [] handler = "attendance" -> "Server error during attendance check"
      [] handler = "extract" -> "Server error during face extraction"

\* the console.error prefix of each handler's catch block
CatchLine(handler) ==
    CASE handler = "register" -> "Registration error:"
      [] handler = "attendance" -> "Attendance error:"
      [] handler = "extract" -> "Extraction error:"

\* napiCanvas.loadImage(buffer) rejects: it is outside the try of
\* extractFaceDescriptor, so the await in the handler throws into its catch
DecodeThrows(req) ==
    /\ BagIn(req, pending)
    /\ pending' = pending (-) SetToBag({ req })
    /\ res' = ServerError(req.handler, CatchMessage(req.handler), DecodeError)
    /\ console' = Logged(console, CatchLine(req.handler), DecodeError)
    /\ UNCHANGED <<facesFile, attendanceFile, detection, nextId, startVars, lost>>

\* the detection chain throws: the catch of extractFaceDescriptor logs it and
\* returns null, and the handler goes on with that
DetectionThrows(req) ==
    LET con == Logged(console, "Face detection error:", DetectError)
    IN  CASE req.handler = "register" -> RegisterHandler(req, NoDetection, con)
          [] req.handler = "attendance" -> AttendanceHandler(req, NoDetection, con)
          [] req.handler = "extract" -> ExtractHandler(req, NoDetection, con)

ExtractorFault ==
    \/ \E req \in BagToSet(pending) : DecodeThrows(req)
    \/ \E req \in BagToSet(pending) : DetectionThrows(req)

NextFault ==
    \/ Next
    \/ StorageFault
    \/ \E image \in ImageInputs : ReceiveExtract(image)
    \/ \E req \in BagToSet(pending), d \in Detections : ResumeExtract(req, d)
    \/ ExtractorFault

SpecFault == Init /\ [][NextFault]_vars

(* ------------------------------ crashes ------------------------------ *)

\* what a fs.writeFileSync that the process did not outlive leaves of the file
\* it was writing array to: the file as it was (killed before the open), a
\* truncated one (killed after the open, before the last byte), or the whole
\* new document (killed after the last byte, before the response)
KilledAt == { "before open", "after open", "after last byte" }

AfterKilledWrite(file, array, at) ==
    CASE at = "before open" -> file
      [] at = "after open" -> truncated
      [] at = "after last byte" -> written(array)

\* the process is gone and node is started again: the handlers in flight are
\* lost with their sockets, nothing is answered, start() runs from its top
Restart ==
    /\ pending' = EmptyBag
    /\ phase' = "loading"
    /\ modelsLoaded' = 0
    /\ UNCHANGED <<nextId, res, console, lost>>

\* the process dies inside saveFaces(faces) of POST /api/register
CrashInSaveFaces(req, d, at) ==
    /\ BagIn(req, pending)
    /\ req.handler = "register"
    /\ d.found
    /\ ~Unparsable(facesFile)
    /\ facesFile' = AfterKilledWrite(facesFile,
                        Upsert(loadFaces, req.name, FaceRecord(req.name, d.descriptor)),
                        at)
    /\ detection' = d
    /\ Restart
    /\ UNCHANGED attendanceFile

\* the process dies inside the fs.writeFileSync of the log of POST /api/attendance
CrashInLogWrite(req, d, at) ==
    /\ BagIn(req, pending)
    /\ req.handler = "attendance"
    /\ d.found
    /\ ~Unparsable(facesFile)
    /\ ~StoreIsEmpty(loadFaces)
    /\ ~Unparsable(attendanceFile)
    /\ LET best == BestMatch(loadFaces, d.descriptor)
       IN  /\ best.match # 0
           /\ BelowThreshold(best.distance)
           /\ attendanceFile' =
                 AfterKilledWrite(attendanceFile,
                     Append(loadAttendanceLog,
                            AttendanceRecord(loadFaces[best.match], best.distance)),
                     at)
    /\ detection' = d
    /\ Restart
    /\ UNCHANGED facesFile

\* the process dies anywhere else while a request is in flight: no write is
\* under way
CrashElsewhere ==
    /\ phase = "listening"
    /\ pending # EmptyBag
    /\ Restart
    /\ UNCHANGED <<facesFile, attendanceFile, detection>>

Crash ==
    \/ \E req \in BagToSet(pending), d \in Detections, at \in KilledAt :
          CrashInSaveFaces(req, d, at)
    \/ \E req \in BagToSet(pending), d \in Detections, at \in KilledAt :
          CrashInLogWrite(req, d, at)
    \/ CrashElsewhere

NextCrash ==
    \/ Next
    \/ Crash

SpecCrash == Init /\ [][NextCrash]_vars

(* ------------------------------ claims ------------------------------ *)

\* the step sends a response of the given handler
Responds(handler) == res'.id # res.id /\ res'.handler = handler

\* the step is a register that succeeds
RegisterSucceeds == Responds("register") /\ res'.status = 200

\* the name the request of a successful register response carried
RequestName(r) == r.body.message[2]

\* C1: the persisted Record Store never holds two FaceRecords whose stored
\* names are equal under case-insensitive comparison.
C1_UniqueNames ==
    \A i, j \in 1..Len(facesNow) :
        i # j => toLowerCase(facesNow[i].name) # toLowerCase(facesNow[j].name)

\* C2: every FaceRecord in the persisted Record Store has a non-empty name.
C2_NonEmptyNames ==
    \A i \in 1..Len(facesNow) : facesNow[i].name # <<>>

\* positions of the records whose name equals the given one, ignoring case
SameNameAt(faces, name) ==
    { i \in 1..Len(faces) : toLowerCase(faces[i].name) = toLowerCase(name) }

\* C3: a successful register whose name case-insensitively equals the name of
\* an existing record replaces the signature of the first such record at its
\* position, keeps the record count and every other record; a register whose
\* name matches no record appends one record at the end and changes nothing
\* else.
C3_UpsertFrame ==
    [][ RegisterSucceeds =>
          LET hits == SameNameAt(facesNow, RequestName(res'))
          IN  IF hits # {}
              THEN LET k == CHOOSE i \in hits : \A j \in hits : i <= j
                   IN  /\ Len(facesNext) = Len(facesNow)
                       /\ facesNext[k].descriptor = detection'.descriptor
                       /\ \A j \in 1..Len(facesNow) :
                              j # k => facesNext[j] = facesNow[j]
              ELSE /\ Len(facesNext) = Len(facesNow) + 1
                   /\ SubSeq(facesNext, 1, Len(facesNow)) = facesNow
                   /\ facesNext[Len(facesNext)].descriptor = detection'.descriptor
      ]_vars

\* a record was replaced in place while a later record stayed as it was
C3_Witness ==
    /\ res.handler = "register" /\ res.status = 200
    /\ Len(facesNow) = 2
    /\ facesNow[1].registeredAt > facesNow[2].registeredAt
    /\ facesNow[1].name # facesNow[2].name

\* the step is the part of a checkIn after the extractor answered
CheckInResumes == Responds("attendance") /\ pending' # pending

\* C4 (as claimed): whenever the Record Store is empty, checkIn with an image
\* answers NoRegisteredFaces (404), whatever the extractor answered.
C4_EmptyStoreAlways404 ==
    [][ (CheckInResumes /\ facesNow = <<>>) => res'.status = 404 ]_vars

\* C4 (amended): with an empty Record Store, checkIn answers
\* NoRegisteredFaces (404) when the extractor found a face, and
\* NoFaceDetected (400) when it found none.
C4_EmptyStoreAfterExtraction ==
    [][ (CheckInResumes /\ facesNow = <<>>) =>
          /\ ~res'.body.success
          /\ res'.status = IF detection'.found THEN 404 ELSE 400
      ]_vars

\* a checkIn found a face and an empty store
C4_Witness ==
    /\ res.handler = "attendance" /\ res.status = 404
    /\ detection.found
    /\ facesNow = <<>>

\* squared distance (grid units) from the probe to the record at position i
SqAt(faces, probe, i) == euclideanDistance(probe, faces[i].descriptor).sq

\* the first position, in store order, of a record at minimum distance
FirstNearest(faces, probe) ==
    CHOOSE i \in 1..Len(faces) :
        /\ \A j \in 1..Len(faces) : SqAt(faces, probe, i) <= SqAt(faces, probe, j)
        /\ \A j \in 1..(i - 1) : SqAt(faces, probe, j) # SqAt(faces, probe, i)

\* C5: for every probe and every non-empty store, the candidate the scan
\* selects has the minimum distance to the probe, and among several at that
\* minimum it is the first in store order; a matched response names it.
C5_SelectsFirstNearest ==
    /\ \A probe \in Descriptors :
          facesNow # <<>> =>
              BestMatch(facesNow, probe).match = FirstNearest(facesNow, probe)
    /\ (res.handler = "attendance" /\ res.status = 200 /\ res.body.matched) =>
          res.body.name = facesNow[FirstNearest(facesNow, detection.descriptor)].name

\* a matched checkIn chose the first of two records at the same minimum distance
C5_Witness ==
    /\ res.handler = "attendance" /\ res.status = 200 /\ res.body.matched
    /\ Len(facesNow) = 2
    /\ SqAt(facesNow, detection.descriptor, 1) = SqAt(facesNow, detection.descriptor, 2)
    /\ facesNow[1].name # facesNow[2].name
    /\ res.body.name = facesNow[1].name

\* the minimum squared distance (grid units) from the probe to the store
MinSq(faces, probe) == SqAt(faces, probe, FirstNearest(faces, probe))

\* C6: with a non-empty store, checkIn answers matched=true exactly when the
\* minimum distance is strictly below the threshold 0.6; at the threshold or
\* above it the call succeeds with matched=false.
C6_MatchedIffBelowThreshold ==
    [][ (CheckInResumes /\ detection'.found /\ facesNow # <<>>) =>
          /\ res'.status = 200
          /\ res'.body.success
          /\ res'.body.matched <=>
                (100 * MinSq(facesNow, detection'.descriptor)
                    < THRESHOLD * THRESHOLD * GridDen * GridDen)
      ]_vars

\* a checkIn whose minimum distance is exactly the threshold was not matched
C6_Witness ==
    /\ res.handler = "attendance" /\ res.status = 200 /\ ~res.body.matched
    /\ detection.found
    /\ facesNow # <<>>
    /\ 100 * MinSq(facesNow, detection.descriptor)
          = THRESHOLD * THRESHOLD * GridDen * GridDen

\* the step is a checkIn that follows a successful register(N, S) with
\* nothing served in between, and whose extracted signature is the same S
CheckInRightAfterRegister ==
    /\ res.handler = "register" /\ res.status = 200
    /\ CheckInResumes
    /\ detection'.found
    /\ detection'.descriptor = detection.descriptor

\* C7 (as claimed): register(N, S) followed immediately by a checkIn that
\* extracts S answers matched=true with the name N (as stored) and
\* confidence 100, whatever the store held before.
C7_RegisterThenCheckInNamesN ==
    [][ CheckInRightAfterRegister =>
          /\ res'.status = 200
          /\ res'.body.matched
          /\ res'.body.confidence = 100
          /\ res'.body.name = trim(RequestName(res))
      ]_vars

\* positions of the records whose signature is the given one
SameSignatureAt(faces, descriptor) ==
    { i \in 1..Len(faces) : faces[i].descriptor = descriptor }

\* C7 (amended): register(N, S) followed immediately by a checkIn that
\* extracts S answers matched=true with confidence 100 and the name of the
\* first record in store order whose signature is S; that name is N, trimmed,
\* when no other record holds the signature S.
C7_RegisterThenCheckInFirstHolder ==
    [][ CheckInRightAfterRegister =>
          LET holders == SameSignatureAt(facesNow, detection.descriptor)
          IN  /\ res'.status = 200
              /\ res'.body.matched
              /\ res'.body.confidence = 100
              /\ holders # {}
              /\ \E k \in holders :
                    /\ \A j \in holders : k <= j
                    /\ res'.body.name = facesNow[k].name
              /\ Cardinality(holders) = 1 =>
                    res'.body.name = trim(RequestName(res))
      ]_vars

\* a checkIn right after a register of the same signature was matched to the
\* record just registered, which is not the first record of the store
C7_Witness ==
    /\ res.handler = "attendance" /\ res.status = 200 /\ res.body.matched
    /\ res.body.confidence = 100
    /\ Len(facesNow) = 2
    /\ facesNow[2].descriptor = detection.descriptor
    /\ facesNow[1].descriptor # detection.descriptor
    /\ res.body.name = facesNow[2].name
    /\ facesNow[2].registeredAt = res.body.timestamp

\* C8: a register that does not succeed (name or image missing, or no face
\* found) answers a 400-class failure and leaves the persisted Record Store
\* exactly as it was.
C8_FailedRegisterChangesNothing ==
    [][ /\ \A name \in NameInputs, image \in ImageInputs :
              (ReceiveRegister(name, image) /\ (name = <<>> \/ image = "")) =>
                  Responds("register") /\ res'.status = 400
        /\ (Responds("register") /\ pending' # pending /\ ~detection'.found) =>
              res'.status = 400
        /\ (Responds("register") /\ res'.status # 200) =>
              /\ res'.status = 400
              /\ ~res'.body.success
              /\ facesFile' = facesFile
      ]_vars

\* a register with no face found was refused while the store held a record
C8_Witness ==
    /\ res.handler = "register" /\ res.status = 400
    /\ res.body.message = "No face detected in the image"
    /\ Len(facesNow) = 1

\* C9: the Attendance Log is append-only: across every step the log before
\* the step is a prefix of the log after it.
C9_LogAppendOnly ==
    [][ IsPrefix(logNow, logNext) ]_vars

\* the log grew twice
C9_Witness ==
    Len(logNow) = 2

\* C10: a checkIn appends exactly one AttendanceEvent if and only if its
\* response has matched=true, and the event's name, confidence and timestamp
\* are those of the response; every other checkIn outcome leaves the log
\* unchanged, and no checkIn changes the Record Store.
C10_CheckInLogsIffMatched ==
    [][ Responds("attendance") =>
          /\ facesFile' = facesFile
          /\ IF res'.status = 200 /\ res'.body.matched
             THEN logNext = Append(logNow,
                                   [name |-> res'.body.name,
                                    timestamp |-> res'.body.timestamp,
                                    confidence |-> res'.body.confidence])
             ELSE attendanceFile' = attendanceFile
      ]_vars

\* a matched checkIn with a confidence below 100 added its event to a log that
\* already held one
C10_Witness ==
    /\ res.handler = "attendance" /\ res.status = 200 /\ res.body.matched
    /\ Len(logNow) = 2
    /\ logNow[2].name = res.body.name
    /\ logNow[2].confidence = res.body.confidence
    /\ logNow[2].confidence < 100

\* C11: when the probe and some candidate record's signature differ in
\* length, checkIn fails as a server fault (DimensionMismatch); it neither
\* measures a truncated prefix nor skips the candidate.
C11_DimensionMismatchIsFault ==
    [][ ( /\ CheckInResumes
          /\ detection'.found
          /\ \E i \in 1..Len(facesNow) :
                Len(facesNow[i].descriptor) # Len(detection'.descriptor) )
        => res'.status = 500
      ]_vars

\* the step answers a request whose handler met a storage error
StorageErrorAnswered ==
    /\ res'.id # res.id
    /\ console'.n # console.n
    /\ console'.detail \in { ParseError, WriteError }

\* C12: whenever loading, parsing or writing a store fails while serving an
\* endpoint, the caller receives a structured failed response that carries
\* only a generic message; the error detail is not in the response.
C12_StorageFaultsAnsweredGenerically ==
    [][ StorageErrorAnswered =>
          /\ DOMAIN res'.body = { "success", "message" }
          /\ ~res'.body.success
      ]_vars

\* the step answers a request whose extractor call ended with an exception
ExtractorThrew ==
    /\ console'.n # console.n
    /\ console'.detail \in { DecodeError, DetectError }

\* C13: a register, attendance or extract-descriptor request whose extractor
\* call fails with an exception (decoding the image, or running detection)
\* ends as a server fault (500), never as NoFaceDetected (400).
C13_ExtractorExceptionIsFault ==
    [][ ExtractorThrew => (res'.id # res.id /\ res'.status = 500) ]_vars

\* the orderings of n candidates
Orderings(n) ==
    { f \in [1..n -> 1..n] : \A i, j \in 1..n : i # j => f[i] # f[j] }

\* the candidates in the order f
Reordered(faces, f) == [i \in 1..Len(faces) |-> faces[f[i]]]

\* C14: for a fixed probe, the match result (matched flag, name, confidence)
\* of checkIn is the same under every reordering of the candidate records
\* that leaves the same record as the first one at minimum distance; the
\* response of a checkIn is that result.
C14_ResultStableUnderReordering ==
    (res.handler = "attendance" /\ res.status = 200) =>
        LET probe == detection.descriptor
            result == MatchResult(facesNow, probe)
            nearest == facesNow[FirstNearest(facesNow, probe)]
        IN  /\ res.body.matched = result.matched
            /\ result.matched =>
                  /\ res.body.name = result.name
                  /\ res.body.confidence = result.confidence
            /\ \A f \in Orderings(Len(facesNow)) :
                  LET other == Reordered(facesNow, f)
                  IN  other[FirstNearest(other, probe)] = nearest
                          => MatchResult(other, probe) = result

\* a checkIn was matched to the second of two records, which is nearer to the
\* probe than the first: the other order selects the same record
C14_Witness ==
    /\ res.handler = "attendance" /\ res.status = 200 /\ res.body.matched
    /\ Len(facesNow) = 2
    /\ SqAt(facesNow, detection.descriptor, 2) < SqAt(facesNow, detection.descriptor, 1)
    /\ res.body.name = facesNow[2].name
    /\ facesNow[1].name # facesNow[2].name

Served == nextId > 0 \/ pending # EmptyBag \/ res.id > 0

\* C16: no request is served before extractor initialization has completed:
\* requests are received, in flight or answered only when the server listens,
\* it listens only with all three models loaded, each model is loaded at most
\* once by a step of loadModels, and once model loading has failed the server
\* never listens and never serves.
C16_ServedOnlyAfterInit ==
    /\ [](/\ Served => phase = "listening"
          /\ phase = "listening" => modelsLoaded = ModelCount
          /\ modelsLoaded <= ModelCount
          /\ phase = "failed" => ~Served)
    /\ [][/\ modelsLoaded' \in {modelsLoaded, modelsLoaded + 1}
          /\ phase = "listening" => modelsLoaded' = modelsLoaded
          /\ phase = "failed" => phase' = "failed" /\ modelsLoaded' = modelsLoaded
          /\ phase' = "listening" /\ phase # "listening" =>
                phase = "loading" /\ modelsLoaded = ModelCount]_vars

\* a request was answered by a server that loaded all three models
C16_Witness ==
    /\ res.id > 0
    /\ phase = "listening"
    /\ modelsLoaded = ModelCount

\* C17: every register request that returns success performs exactly one
\* write of the persisted Record Store (the document after the step is the
\* complete document saveFaces wrote, holding the request's record), and every
\* register request that returns a failure performs none (the document is
\* exactly as it was).
C17_OneWriteIffSuccess ==
    [][ /\ RegisterSucceeds =>
              /\ facesFile'.exists /\ ~facesFile'.torn
              /\ \E i \in 1..Len(facesNext) :
                    /\ facesNext[i].name = trim(RequestName(res'))
                    /\ facesNext[i].descriptor = detection'.descriptor
                    /\ facesNext[i].registeredAt = nextId
              /\ Len(facesNext) \in { Len(facesNow), Len(facesNow) + 1 }
        /\ (Responds("register") /\ res'.status # 200) => facesFile' = facesFile
      ]_vars

\* an existingIndex of the other kind of call: of an update (a slot found)
\* when the call inserted, of an insert (none found) when it updated
OtherKind(existingIndex) == IF existingIndex = 0 THEN 1 ELSE 0

\* C18: the response of a successful register reports whether the call
\* inserted a new record or updated an existing one (its body is not the body
\* the other kind of call gives for the same name and total), and its
\* totalRegistered is the number of records in the persisted Record Store
\* right after the call's write.
C18_ReportsInsertOrUpdate ==
    [][ RegisterSucceeds =>
          LET name == RequestName(res')
              existingIndex == findIndex(facesNow, name)
          IN  /\ res'.body.totalRegistered = Len(facesNext)
              /\ res'.body # RegisterSuccessBody(name, facesNext,
                                                 OtherKind(existingIndex))
      ]_vars

\* the part of C18 the code keeps: totalRegistered is the persisted count
TotalRegisteredIsCount ==
    [][ RegisterSucceeds => res'.body.totalRegistered = Len(facesNext) ]_vars

\* the step is a crash of the serving process
Crashed == phase = "listening" /\ phase' = "loading"

\* C19: if the process crashes while serving a register or checkIn request,
\* each persisted document afterwards is its complete content of before the
\* request or its complete content of after it: no truncated document is left
\* for a later load, and no persisted record or event is lost.
C19_CrashLeavesPreOrPost ==
    [][ Crashed =>
          /\ ~Unparsable(facesFile')
          /\ ~Unparsable(attendanceFile')
          /\ \/ facesFile' = facesFile
             \/ \E req \in BagToSet(pending), d \in Detections :
                   /\ req.handler = "register"
                   /\ facesFile' = written(Upsert(facesNow, req.name,
                                                  FaceRecord(req.name, d.descriptor)))
          /\ \/ attendanceFile' = attendanceFile
             \/ /\ Len(logNext) = Len(logNow) + 1
                /\ \E req \in BagToSet(pending) : req.handler = "attendance"
          /\ \A i \in 1..Len(facesNow) :
                \E j \in 1..Len(facesNext) :
                    toLowerCase(facesNext[j].name) = toLowerCase(facesNow[i].name)
          /\ IsPrefix(logNow, logNext)
      ]_vars

\* the step is a checkIn that answers a match
CheckInMatches ==
    /\ Responds("attendance")
    /\ res'.status = 200
    /\ res'.body.matched

\* C20: every AttendanceEvent in the log has a confidence between 40 and 100
\* inclusive, and so has every confidence returned; the event a checkIn
\* appends is the one it returns, and its name is the stored name of a
\* FaceRecord of the Record Store that checkIn loaded.
C20_ConfidenceAndNameOfEvent ==
    /\ [](\A i \in 1..Len(logNow) : logNow[i].confidence \in 40..100)
    /\ [][ CheckInMatches =>
            /\ res'.body.confidence \in 40..100
            /\ logNext = Append(logNow,
                               [name |-> res'.body.name,
                                timestamp |-> res'.body.timestamp,
                                confidence |-> res'.body.confidence])
            /\ \E n \in 1..Len(facesNow) : facesNow[n].name = res'.body.name
          ]_vars

\* a checkIn was logged with a confidence below 100
C20_Witness ==
    /\ res.handler = "attendance" /\ res.status = 200 /\ res.body.matched
    /\ res.body.confidence \in 40..99
    /\ logNow[Len(logNow)].confidence = res.body.confidence

====
